---- MODULE Spec2Model ----
(***************************************************************************)
(* Model of python/ticker.py: the quote cache (update_cache,               *)
(* get_cached_quotes), and the background updater (TickerUpdater,          *)
(* TickerThread, start_display_refresh, stop_display_refresh).             *)
(*                                                                         *)
(* Time is counted in ticks, TicksPerSec ticks to the second, so that the  *)
(* second-precision TIME_FORMAT loses what datetime.now() carries below    *)
(* the second.  Context 0 is Vim's main thread; contexts 1..MaxThreads are *)
(* TickerThread objects, numbered in order of construction.                *)
(***************************************************************************)
EXTENDS Integers, FiniteSets, Sequences, TLC

\* ---------------------------------------------------------------- bounds
TicksPerSec == 2
MaxTime == 4
MaxInterval == 2
MaxThreads == 2
MaxFmtLen == 5

Syms == {"A", "B"}
DPs == {-1, 0, 1}
\* The percent changes the quote source answers with where threads interleave.
SchedDPs == {1}
\* UPDATER = None: no TickerUpdater object.
None == 0
ThreadIds == 1..MaxThreads
Ctx == {None} \cup ThreadIds
\* Vim's main thread, the context that is no TickerThread.
Main == CHOOSE c \in Ctx : c \notin ThreadIds

\* ------------------------------------------------------------ data model
\* A quote as get_rest_quote returns it: the Finnhub fields (of which the
\* model keeps dp, the percent change) and the added 'ticker' key.
Quote(d, t) == [dp |-> d, ticker |-> t]

NoQuotes == [s \in {} |-> Quote(0, "A")]

Keys(q) == DOMAIN q

\* The cache file.  kind: "absent" (no file), "corrupt" (bytes json.load
\* rejects), "trunc" (the empty file open(..., 'w') leaves, which json.load
\* rejects too), "json" (a JSON object: hasNU tells whether it holds the
\* 'next_update' key, nu is that key's text, recs the other keys).
AbsentFile == [kind |-> "absent", hasNU |-> FALSE, nu |-> 0, recs |-> NoQuotes]
CorruptFile == [kind |-> "corrupt", hasNU |-> FALSE, nu |-> 0, recs |-> NoQuotes]
TruncFile == [kind |-> "trunc", hasNU |-> FALSE, nu |-> 0, recs |-> NoQuotes]
JsonFile(h, n, r) == [kind |-> "json", hasNU |-> h, nu |-> n, recs |-> r]

\* TIME_FORMAT = '%m-%d-%Y %H:%M:%S': strftime keeps whole seconds only; the
\* text is modelled by the number of the second it names.
StrfTime(t) == t \div TicksPerSec

StrpTime(s) == s * TicksPerSec

\* calc_next_update: datetime.now() + timedelta(minutes), formatted.
calc_next_update(t, refresh_interval) == StrfTime(t + refresh_interval)

\* get_cached_quotes, line 166: the cached quotes are usable.
KeysMatch(q, tks) == q # NoQuotes /\ Keys(q) = tks

\* Mutant: the deadline itself still counts as fresh.
StillFreshAtDeadline(nu, t) == nu >= t

\* get_cached_quotes, line 170: "Do the quotes need refreshing?"
StillFresh(nu, t) == nu > t

\* Mutant: the key is left in the dict.
del_nothing(h) == h

\* Lines 164, 175: del quotes['next_update']; h tells whether the dict held
\* the key, the result whether it still does.
del_next_update(h) == FALSE

\* Mutant: the cached records are returned as they were read.
StampNothing(q) == q

\* get_cached_quotes, lines 167-168: quotes[t]['ticker'] = t.
Stamp(q) == [s \in Keys(q) |-> [q[s] EXCEPT !.ticker = s]]

\* --------------------------------------------------------- FmtStringParser
\* Strings are sequences of one-character strings.  A percent change is kept
\* in hundredths, so that str() of the float has digits to show or to drop.
Digits == <<"0", "1", "2", "3", "4", "5", "6", "7", "8", "9">>

IsDigit(ch) == \E i \in DOMAIN Digits : Digits[i] = ch

DigitVal(ch) == (CHOOSE i \in DOMAIN Digits : Digits[i] = ch) - 1

\* int(gd['width']), int(gd['prec']): the number a run of digits names.
RECURSIVE IntOf(_)
IntOf(ds) ==
    IF ds = <<>> THEN 0
    ELSE IntOf(SubSeq(ds, 1, Len(ds) - 1)) * 10 + DigitVal(ds[Len(ds)])

RECURSIVE DecimalDigits(_)
DecimalDigits(n) ==
    IF n < 10 THEN <<Digits[n + 1]>>
    ELSE Append(DecimalDigits(n \div 10), Digits[(n % 10) + 1])

\* str() of the float h/100: sign, integer part, the point, and the shortest
\* run of digits that names the fraction, one digit at least.
StrFloat(h) ==
    LET a == IF h < 0 THEN -h ELSE h
        f == a % 100
        frac == IF f % 10 = 0 THEN <<Digits[(f \div 10) + 1]>>
                ELSE <<Digits[(f \div 10) + 1], Digits[(f % 10) + 1]>>
    IN (IF h < 0 THEN <<"-">> ELSE <<>>) \o DecimalDigits(a \div 100) \o <<".">> \o frac

\* str() of a ticker symbol: the symbols are single characters, but for the
\* class-B share "B.A".
StrTicker(t) == IF t = "B.A" THEN <<"B", ".", "A">> ELSE <<t>>

\* The class [cdphloCt%] of FMT_PATTERN; of the Finnhub fields the model keeps
\* dp, so of the letters it keeps p and t.
SpecChars == {"p", "t", "%"}

\* Lines 238-255: str(quote_data[specifier_to_key[gd['spec']]]), with
\* quote_data['%'] = '%'.
StrOfKey(quote_data, ch) ==
    CASE ch = "p" -> StrFloat(quote_data.dp)
      [] ch = "t" -> StrTicker(quote_data.ticker)
      [] ch = "%" -> <<"%">>

\* The length of the run of digits of fmt that begins at index j.
RECURSIVE DigitRun(_, _)
DigitRun(fmt, j) ==
    IF j <= Len(fmt) /\ IsDigit(fmt[j]) THEN 1 + DigitRun(fmt, j + 1) ELSE 0

NoMatch == [start |-> 0, end |-> 0, minus |-> FALSE, width |-> <<>>, prec |-> <<>>, spec |-> ""]

\* The match of FMT_PATTERN that begins at index i of fmt, or NoMatch: '%',
\* an optional '-', an optional run of digits, an optional '.' with a run of
\* digits, and a character of the class.  The greedy choice is the only one
\* that can match: after a shorter run of digits comes a digit, after a
\* skipped '-' or '.' comes that character, and none is in the class.
\* start is the index of '%', end the index after the match.
MatchAt(fmt, i) ==
    LET a == i + 1
        minus == a <= Len(fmt) /\ fmt[a] = "-"
        b == IF minus THEN a + 1 ELSE a
        w == DigitRun(fmt, b)
        c == b + w
        p == IF c <= Len(fmt) /\ fmt[c] = "." THEN DigitRun(fmt, c + 1) ELSE 0
        e == IF p > 0 THEN c + 1 + p ELSE c
    IN IF i <= Len(fmt) /\ fmt[i] = "%" /\ e <= Len(fmt) /\ fmt[e] \in SpecChars
       THEN [start |-> i, end |-> e + 1, minus |-> minus,
             width |-> SubSeq(fmt, b, c - 1),
             prec |-> IF p > 0 THEN SubSeq(fmt, c + 1, c + p) ELSE <<>>,
             spec |-> fmt[e]]
       ELSE NoMatch

\* Mutant: the search takes the last match, not the first.
search_last(fmt, pos) ==
    LET S == {i \in pos..Len(fmt) : MatchAt(fmt, i) # NoMatch}
    IN IF S = {} THEN NoMatch
       ELSE MatchAt(fmt, CHOOSE i \in S : \A k \in S : k <= i)

\* Line 303: self.regex.search(fmt, pos), the leftmost match at or after pos
\* (indices count from 1 here).
search(fmt, pos) ==
    LET S == {i \in pos..Len(fmt) : MatchAt(fmt, i) # NoMatch}
    IN IF S = {} THEN NoMatch
       ELSE MatchAt(fmt, CHOOSE i \in S : \A k \in S : i <= k)

Repeat(ch, n) == [i \in 1..n |-> ch]

\* The first '.' of res (res.find('.')), 0 if there is none.
FindDot(res) ==
    IF \E i \in DOMAIN res : res[i] = "."
    THEN CHOOSE i \in DOMAIN res : res[i] = "." /\ \A k \in 1..(i - 1) : res[k] # "."
    ELSE 0

\* Mutant: digits beyond the precision are kept.
precision_step_keep(res, mat) ==
    LET prec == IF mat.prec # <<>> THEN IntOf(mat.prec) ELSE 0
        d == FindDot(res)
        after == prec - (Len(res) - d)
    IN IF mat.prec # <<>> /\ d > 0 /\ after > 0 THEN res \o Repeat("0", after) ELSE res

\* Lines 252, 257-265: the precision given and a '.' in res: pad with '0' or
\* truncate.
precision_step(res, mat) ==
    LET prec == IF mat.prec # <<>> THEN IntOf(mat.prec) ELSE 0
        d == FindDot(res)
        after == prec - (Len(res) - d)
    IN IF mat.prec # <<>> /\ d > 0
       THEN IF after > 0 THEN res \o Repeat("0", after)
            ELSE SubSeq(res, 1, d + prec)
       ELSE res

\* Mutant: the padding goes to the same side whatever the flag.
width_step_left(res, mat) ==
    LET width == IF mat.width # <<>> THEN IntOf(mat.width) ELSE 0
    IN IF mat.width # <<>>
       THEN IF Len(res) > width THEN SubSeq(res, 1, width)
            ELSE res \o Repeat(" ", width - Len(res))
       ELSE res

\* Lines 250-251, 267-278: the width given: truncate to width characters or
\* pad with spaces, before res when '-' was given (justify 'r'), after it
\* otherwise.
width_step(res, mat) ==
    LET justify == IF mat.minus THEN "r" ELSE "l"
        width == IF mat.width # <<>> THEN IntOf(mat.width) ELSE 0
    IN IF mat.width # <<>>
       THEN IF Len(res) > width THEN SubSeq(res, 1, width)
            ELSE LET padding == Repeat(" ", width - Len(res))
                 IN IF justify = "r" THEN padding \o res ELSE res \o padding
       ELSE res

\* Lines 221-280.
process_specifier(quote_data, mat) ==
    width_step(precision_step(StrOfKey(quote_data, mat.spec), mat), mat)

\* Lines 299-316, as one value: what parse returns for fmt from pos on.
RECURSIVE parse_from(_, _, _)
parse_from(quote_data, fmt, pos) ==
    IF pos > Len(fmt) THEN <<>>
    ELSE LET mat == search(fmt, pos)
         IN IF mat # NoMatch
            THEN SubSeq(fmt, pos, mat.start - 1)
                    \o process_specifier(quote_data, mat)
                    \o parse_from(quote_data, fmt, mat.end)
            ELSE SubSeq(fmt, pos, Len(fmt))

parse(quote_data, fmt) == parse_from(quote_data, fmt, 1)

VARIABLES
    file,               \* the quote cache file on disk
    now,                \* the wall clock, in ticks
    portfolio,          \* keys of g:ticker_portfolio
    refresh_interval,   \* params['refresh_interval_minutes'], in ticks
    pc,                 \* per context: where it stands
    op,                 \* per context: the entry point it is running
    tickers,            \* per context: the tickers argument
    quotes,             \* per context: the local dict quotes, less next_update
    next_update,        \* per context: the local next_update (text for
                        \* update_cache, parsed ticks for get_cached_quotes)
    todo,               \* per context: tickers the for loop has yet to fetch
    ret,                \* per context: the value returned
    err,                \* per context: the exception raised ("" if none)
    seen,               \* per context: what the call's json.load read
    seenAt,             \* per context: datetime.now() of line 170
    nfetch,             \* per context: get_rest_quote calls of this call
    wrote,              \* per context: this call opened the file for writing
    reported,           \* per context: this call printed a decode error
    file0,              \* the file when the main context's call in progress began
    last,               \* the main context's last completed refresh
    UPDATER,            \* the module global: None or the TickerUpdater's thread
    running,            \* per thread: self.running
    time_to_stop,       \* per thread: self.time_to_stop
    self_next_update,   \* per thread: self.next_update, in ticks
    wake_at,            \* per thread: when its cond_var.wait times out
    notified,           \* per thread: its wait has been notified
    stopped,            \* threads whose stop() has returned
    has_nu,             \* per context: the local dict quotes holds 'next_update'
    torn,               \* some json.load has read the file between open(..., 'w')
                        \* and json.dump
    audit,              \* whether seen, seenAt, file0 and last are kept: they
                        \* are where the main thread runs alone (SpecCache)
    res,                \* get_ticker_data's dict res: display string to 0 or 1
    shown,              \* per symbol get_ticker_data has formatted: its display
    fmt,                \* parse's argument fmt
    quote_data,         \* parse's argument quote_data
    pos,                \* parse's local pos, counted from 1
    parse_res,          \* parse's local res
    ppc,                \* where parse stands
    mat,                \* the match parse processed last
    after_prec,         \* process_specifier's res after the precision step
    piece               \* what process_specifier returned last

cacheVars == <<file, now, portfolio, refresh_interval>>
localVars == <<pc, op, tickers, quotes, next_update, todo, ret, err>>
ghostVars == <<seen, seenAt, nfetch, wrote, reported, file0, last>>
schedVars == <<UPDATER, running, time_to_stop, self_next_update, wake_at, notified, stopped>>
displayVars == <<res, shown>>
parseVars == <<fmt, quote_data, pos, parse_res, ppc, mat, after_prec, piece>>
vars == <<cacheVars, localVars, ghostVars, schedVars, torn, audit, has_nu,
          displayVars, parseVars>>

\* History variable g with v noted for context c, where history is kept.
Noted(g, c, v) == IF audit THEN [g EXCEPT ![c] = v] ELSE g

NoLast == [valid |-> FALSE, tickers |-> {}, recs |-> NoQuotes]

\* ------------------------------------------------------------ initial state
Recs == UNION {[S -> {Quote(d, t) : d \in {-1, 1}, t \in Syms}] : S \in SUBSET Syms}

InitFiles ==
    {AbsentFile, CorruptFile}
        \cup {JsonFile(TRUE, n, r) : n \in 0..1, r \in Recs}
        \cup {JsonFile(FALSE, 0, r) : r \in {q \in Recs : \A s \in Keys(q) : q[s].ticker = s}}

InitLocals ==
    /\ pc = [c \in Ctx |-> IF c = Main THEN "idle" ELSE "t_none"]
    /\ op = [c \in Ctx |-> "none"]
    /\ tickers = [c \in Ctx |-> {}]
    /\ quotes = [c \in Ctx |-> NoQuotes]
    /\ next_update = [c \in Ctx |-> 0]
    /\ todo = [c \in Ctx |-> {}]
    /\ ret = [c \in Ctx |-> NoQuotes]
    /\ err = [c \in Ctx |-> ""]
    /\ has_nu = [c \in Ctx |-> FALSE]
    /\ seen = [c \in Ctx |-> AbsentFile]
    /\ seenAt = [c \in Ctx |-> 0]
    /\ nfetch = [c \in Ctx |-> 0]
    /\ wrote = [c \in Ctx |-> FALSE]
    /\ reported = [c \in Ctx |-> FALSE]
    /\ last = NoLast
    /\ UPDATER = None
    /\ running = [t \in ThreadIds |-> FALSE]
    /\ time_to_stop = [t \in ThreadIds |-> FALSE]
    /\ self_next_update = [t \in ThreadIds |-> 0]
    /\ wake_at = [t \in ThreadIds |-> 0]
    /\ notified = [t \in ThreadIds |-> FALSE]
    /\ stopped = {}
    /\ torn = FALSE
    /\ res = <<>>
    /\ shown = <<>>

\* No parse is in progress.
NoParse ==
    /\ fmt = <<>>
    /\ quote_data = Quote(0, "A")
    /\ pos = 1
    /\ parse_res = <<>>
    /\ ppc = "p_none"
    /\ mat = NoMatch
    /\ after_prec = <<>>
    /\ piece = <<>>

Init ==
    /\ file \in InitFiles
    /\ file0 = AbsentFile
    /\ now = 0
    /\ portfolio \in SUBSET Syms
    /\ refresh_interval \in 0..MaxInterval
    /\ audit = TRUE
    /\ InitLocals
    /\ NoParse

\* ------------------------------------------------------------ update_cache
\* Where update_cache returns to.
AfterUpdate(c) == IF c = Main THEN "returned" ELSE "t_reread"

\* Lines 104-108: quotes = {}; quotes['next_update'] = calc_next_update(...).
uc_begin(c) ==
    /\ pc[c] = "uc_begin"
    /\ quotes' = [quotes EXCEPT ![c] = NoQuotes]
    /\ next_update' = [next_update EXCEPT ![c] = calc_next_update(now, refresh_interval)]
    /\ todo' = [todo EXCEPT ![c] = tickers[c]]
    /\ pc' = [pc EXCEPT ![c] = IF tickers[c] = {} THEN "uc_open" ELSE "uc_fetch"]
    /\ UNCHANGED <<cacheVars, op, tickers, ret, err, ghostVars>>
    /\ UNCHANGED schedVars
    /\ has_nu' = [has_nu EXCEPT ![c] = TRUE]
    /\ UNCHANGED <<torn, audit>>
    /\ UNCHANGED <<displayVars, parseVars>>

\* Lines 109-110, 63-65: one turn of the loop, get_rest_quote answering with a
\* percent change out of D.
uc_fetch_ok(c, D) ==
    /\ pc[c] = "uc_fetch"
    /\ \E t \in todo[c], d \in D :
        /\ quotes' = [quotes EXCEPT ![c] =
                        [s \in Keys(quotes[c]) \cup {t} |->
                            IF s = t THEN Quote(d, t) ELSE quotes[c][s]]]
        /\ todo' = [todo EXCEPT ![c] = todo[c] \ {t}]
        /\ pc' = [pc EXCEPT ![c] = IF todo[c] = {t} THEN "uc_open" ELSE "uc_fetch"]
    /\ nfetch' = [nfetch EXCEPT ![c] = nfetch[c] + 1]
    /\ UNCHANGED <<cacheVars, op, tickers, next_update, ret, err>>
    /\ UNCHANGED <<seen, seenAt, wrote, reported, file0, last>>
    /\ UNCHANGED schedVars
    /\ UNCHANGED <<torn, audit, has_nu>>
    /\ UNCHANGED <<displayVars, parseVars>>

\* Mutant: the quotes fetched before the failure are written out.
uc_fetch_fail_partial(c) ==
    /\ pc[c] = "uc_fetch"
    /\ nfetch' = [nfetch EXCEPT ![c] = nfetch[c] + 1]
    /\ err' = [err EXCEPT ![c] = "FetchError"]
    /\ pc' = [pc EXCEPT ![c] = IF c = Main THEN "raised" ELSE "t_raising"]
    /\ file' = JsonFile(TRUE, next_update[c], quotes[c])
    /\ UNCHANGED <<now, portfolio, refresh_interval>>
    /\ UNCHANGED <<op, tickers, quotes, next_update, todo, ret>>
    /\ UNCHANGED <<seen, seenAt, wrote, reported, file0, last>>
    /\ UNCHANGED schedVars
    /\ UNCHANGED <<torn, audit, has_nu>>
    /\ UNCHANGED <<displayVars, parseVars>>

\* Lines 109-110: get_rest_quote raises; nothing in update_cache catches it.
uc_fetch_fail(c) ==
    /\ pc[c] = "uc_fetch"
    /\ nfetch' = [nfetch EXCEPT ![c] = nfetch[c] + 1]
    /\ err' = [err EXCEPT ![c] = "FetchError"]
    /\ pc' = [pc EXCEPT ![c] = IF c = Main THEN "raised" ELSE "t_raising"]
    /\ UNCHANGED <<cacheVars, op, tickers, quotes, next_update, todo, ret>>
    /\ UNCHANGED <<seen, seenAt, wrote, reported, file0, last>>
    /\ UNCHANGED schedVars
    /\ UNCHANGED <<torn, audit, has_nu>>
    /\ UNCHANGED <<displayVars, parseVars>>

\* Line 111: open(..., 'w') creates or truncates the file.
uc_open(c) ==
    /\ pc[c] = "uc_open"
    /\ file' = TruncFile
    /\ wrote' = [wrote EXCEPT ![c] = TRUE]
    /\ pc' = [pc EXCEPT ![c] = "uc_dump"]
    /\ UNCHANGED <<now, portfolio, refresh_interval>>
    /\ UNCHANGED <<op, tickers, quotes, next_update, todo, ret, err>>
    /\ UNCHANGED <<seen, seenAt, nfetch, reported, file0, last>>
    /\ UNCHANGED schedVars
    /\ UNCHANGED <<torn, audit, has_nu>>
    /\ UNCHANGED <<displayVars, parseVars>>

\* Lines 112-113 (and 175-176 for get_cached_quotes): json.dump, close, return.
uc_dump(c) ==
    /\ pc[c] = "uc_dump"
    /\ file' = JsonFile(TRUE, next_update[c], quotes[c])
    /\ ret' = [ret EXCEPT ![c] = IF op[c] = "get" THEN quotes[c] ELSE NoQuotes]
    /\ pc' = [pc EXCEPT ![c] = AfterUpdate(c)]
    /\ last' = IF audit /\ c = Main /\ op[c] = "refresh"
               THEN [valid |-> TRUE, tickers |-> tickers[c], recs |-> quotes[c]]
               ELSE last
    /\ UNCHANGED <<now, portfolio, refresh_interval>>
    /\ UNCHANGED <<op, tickers, quotes, next_update, todo, err>>
    /\ UNCHANGED <<seen, seenAt, nfetch, wrote, reported, file0>>
    /\ UNCHANGED schedVars
    /\ has_nu' = [has_nu EXCEPT ![c] =
                    IF op[c] = "get" THEN del_next_update(has_nu[c]) ELSE FALSE]
    /\ UNCHANGED <<torn, audit>>
    /\ UNCHANGED <<displayVars, parseVars>>

update_cache(c, D) ==
    \/ uc_begin(c)
    \/ uc_fetch_ok(c, D)
    \/ uc_fetch_fail(c)
    \/ uc_open(c)
    \/ uc_dump(c)

\* ------------------------------------------------------- get_cached_quotes
\* Entry (lines 152-153), called by the main thread with the portfolio's keys.
gcq_call ==
    /\ pc[Main] = "idle"
    /\ pc' = [pc EXCEPT ![Main] = "gcq_read"]
    /\ op' = [op EXCEPT ![Main] = "get"]
    /\ tickers' = [tickers EXCEPT ![Main] = portfolio]
    /\ file0' = (IF audit THEN file ELSE file0)
    /\ UNCHANGED <<cacheVars, quotes, next_update, todo, ret, err>>
    /\ UNCHANGED <<seen, seenAt, nfetch, wrote, reported, last>>
    /\ UNCHANGED schedVars
    /\ UNCHANGED <<torn, audit, has_nu>>
    /\ UNCHANGED <<displayVars, parseVars>>

\* Line 154 false: no cache file; control falls to line 174.
gcq_read_absent(c) ==
    /\ pc[c] = "gcq_read"
    /\ file.kind = "absent"
    /\ seen' = Noted(seen, c, file)
    /\ pc' = [pc EXCEPT ![c] = "uc_begin"]
    /\ UNCHANGED <<cacheVars, op, tickers, quotes, next_update, todo, ret, err>>
    /\ UNCHANGED <<seenAt, nfetch, wrote, reported, file0, last>>
    /\ UNCHANGED schedVars
    /\ UNCHANGED <<torn, audit, has_nu>>
    /\ UNCHANGED <<displayVars, parseVars>>

\* Mutant: the JSONDecodeError is not caught.
gcq_read_undecodable_fatal(c) ==
    /\ pc[c] = "gcq_read"
    /\ file.kind \in {"corrupt", "trunc"}
    /\ seen' = Noted(seen, c, file)
    /\ err' = [err EXCEPT ![c] = "JSONDecodeError"]
    /\ pc' = [pc EXCEPT ![c] = "raised"]
    /\ UNCHANGED <<cacheVars, op, tickers, quotes, next_update, todo, ret>>
    /\ UNCHANGED <<seenAt, nfetch, wrote, reported, file0, last>>
    /\ UNCHANGED schedVars
    /\ UNCHANGED <<torn, audit, has_nu>>
    /\ UNCHANGED <<displayVars, parseVars>>

\* Lines 156-160: json.load raises JSONDecodeError, which is printed; quotes
\* stays {}, so line 166 is false and control falls to line 174.
gcq_read_undecodable(c) ==
    /\ pc[c] = "gcq_read"
    /\ file.kind \in {"corrupt", "trunc"}
    /\ seen' = Noted(seen, c, file)
    /\ reported' = [reported EXCEPT ![c] = TRUE]
    /\ pc' = [pc EXCEPT ![c] = "uc_begin"]
    /\ UNCHANGED <<cacheVars, op, tickers, quotes, next_update, todo, ret, err>>
    /\ UNCHANGED <<seenAt, nfetch, wrote, file0, last>>
    /\ UNCHANGED schedVars
    /\ torn' = (torn \/ file.kind = "trunc")
    /\ UNCHANGED <<audit, has_nu>>
    /\ UNCHANGED <<displayVars, parseVars>>

\* Lines 157, 161-164: json.load succeeds; next_update is parsed and deleted.
gcq_read_json(c) ==
    /\ pc[c] = "gcq_read"
    /\ file.kind = "json"
    /\ file.hasNU
    /\ seen' = Noted(seen, c, file)
    /\ next_update' = [next_update EXCEPT ![c] = StrpTime(file.nu)]
    /\ quotes' = [quotes EXCEPT ![c] = file.recs]
    /\ pc' = [pc EXCEPT ![c] = "gcq_check"]
    /\ UNCHANGED <<cacheVars, op, tickers, todo, ret, err>>
    /\ UNCHANGED <<seenAt, nfetch, wrote, reported, file0, last>>
    /\ UNCHANGED schedVars
    /\ has_nu' = [has_nu EXCEPT ![c] = del_next_update(file.hasNU)]
    /\ UNCHANGED <<torn, audit>>
    /\ UNCHANGED <<displayVars, parseVars>>

\* Line 162: quotes['next_update'] on a JSON object without that key raises
\* KeyError, which nothing catches.
gcq_read_nokey(c) ==
    /\ pc[c] = "gcq_read"
    /\ file.kind = "json"
    /\ ~file.hasNU
    /\ seen' = Noted(seen, c, file)
    /\ err' = [err EXCEPT ![c] = "KeyError"]
    /\ pc' = [pc EXCEPT ![c] = "raised"]
    /\ UNCHANGED <<cacheVars, op, tickers, quotes, next_update, todo, ret>>
    /\ UNCHANGED <<seenAt, nfetch, wrote, reported, file0, last>>
    /\ UNCHANGED schedVars
    /\ UNCHANGED <<torn, audit, has_nu>>
    /\ UNCHANGED <<displayVars, parseVars>>

\* Lines 166-171: on matching keys stamp the tickers and, if the deadline is
\* still ahead, return the cached quotes; otherwise fall to line 174.
gcq_check(c) ==
    /\ pc[c] = "gcq_check"
    /\ seenAt' = Noted(seenAt, c, now)
    /\ IF KeysMatch(quotes[c], tickers[c])
       THEN /\ quotes' = [quotes EXCEPT ![c] = Stamp(quotes[c])]
            /\ IF StillFresh(next_update[c], now)
               THEN /\ ret' = [ret EXCEPT ![c] = Stamp(quotes[c])]
                    /\ pc' = [pc EXCEPT ![c] = "returned"]
               ELSE /\ ret' = ret
                    /\ pc' = [pc EXCEPT ![c] = "uc_begin"]
       ELSE /\ quotes' = quotes
            /\ ret' = ret
            /\ pc' = [pc EXCEPT ![c] = "uc_begin"]
    /\ UNCHANGED <<cacheVars, op, tickers, next_update, todo, err>>
    /\ UNCHANGED <<seen, nfetch, wrote, reported, file0, last>>
    /\ UNCHANGED schedVars
    /\ UNCHANGED <<torn, audit, has_nu>>
    /\ UNCHANGED <<displayVars, parseVars>>

get_cached_quotes(c) ==
    \/ gcq_read_absent(c)
    \/ gcq_read_undecodable(c)
    \/ gcq_read_json(c)
    \/ gcq_read_nokey(c)
    \/ gcq_check(c)

\* ---------------------------------------------------- refresh_quote_data_now
\* Line 128, called by the main thread: update_cache(params, portfolio.keys()).
refresh_quote_data_now ==
    /\ pc[Main] = "idle"
    /\ pc' = [pc EXCEPT ![Main] = "uc_begin"]
    /\ op' = [op EXCEPT ![Main] = "refresh"]
    /\ tickers' = [tickers EXCEPT ![Main] = portfolio]
    /\ file0' = (IF audit THEN file ELSE file0)
    /\ last' = NoLast
    /\ UNCHANGED <<cacheVars, quotes, next_update, todo, ret, err>>
    /\ UNCHANGED <<seen, seenAt, nfetch, wrote, reported>>
    /\ UNCHANGED schedVars
    /\ UNCHANGED <<torn, audit, has_nu>>
    /\ UNCHANGED <<displayVars, parseVars>>

\* The main thread's call is over: its caller takes the result or the
\* exception, and the call's locals are gone.
Return ==
    /\ pc[Main] \in {"returned", "raised", "gtd_done"}
    /\ pc' = [pc EXCEPT ![Main] = "idle"]
    /\ op' = [op EXCEPT ![Main] = "none"]
    /\ tickers' = [tickers EXCEPT ![Main] = {}]
    /\ quotes' = [quotes EXCEPT ![Main] = NoQuotes]
    /\ next_update' = [next_update EXCEPT ![Main] = 0]
    /\ todo' = [todo EXCEPT ![Main] = {}]
    /\ ret' = [ret EXCEPT ![Main] = NoQuotes]
    /\ err' = [err EXCEPT ![Main] = ""]
    /\ seen' = [seen EXCEPT ![Main] = AbsentFile]
    /\ seenAt' = [seenAt EXCEPT ![Main] = 0]
    /\ nfetch' = [nfetch EXCEPT ![Main] = 0]
    /\ wrote' = [wrote EXCEPT ![Main] = FALSE]
    /\ reported' = [reported EXCEPT ![Main] = FALSE]
    /\ file0' = AbsentFile
    /\ last' = IF op[Main] = "refresh" /\ pc[Main] = "returned" THEN last ELSE NoLast
    /\ UNCHANGED cacheVars
    /\ UNCHANGED schedVars
    /\ has_nu' = [has_nu EXCEPT ![Main] = FALSE]
    /\ UNCHANGED <<torn, audit>>
    /\ res' = <<>>
    /\ shown' = <<>>
    /\ UNCHANGED parseVars

\* ---------------------------------------------------------- get_ticker_data
\* The format strings g:ticker_portfolio gives its symbols.
TickerFmts == {<<"%", "t">>, <<"x">>}

\* Mutant: every record counts as up.
classify_all_up(dp) == 1

\* Mutant: a flat record counts as down.
classify_flat_down(dp) == IF dp <= 0 THEN 0 ELSE 1

\* Line 345: 0 if quotes[quote]['dp'] < 0.0 else 1.
classify(dp) == IF dp < 0 THEN 0 ELSE 1

\* Lines 343-345: one turn of the loop over the quotes that get_cached_quotes
\* (line 341) returned: the quote is formatted by its symbol's format string
\* and res[formatted] is assigned.
gtd_format ==
    /\ op[Main] = "get"
    /\ pc[Main] \in {"returned", "gtd_loop"}
    /\ \E quote \in Keys(ret[Main]) \ DOMAIN shown, f \in TickerFmts :
        LET formatted == parse(ret[Main][quote], f) IN
            /\ res' = [d \in DOMAIN res \cup {formatted} |->
                        IF d = formatted THEN classify(ret[Main][quote].dp) ELSE res[d]]
            /\ shown' = [s \in DOMAIN shown \cup {quote} |->
                          IF s = quote THEN formatted ELSE shown[s]]
    /\ pc' = [pc EXCEPT ![Main] = "gtd_loop"]
    /\ UNCHANGED <<cacheVars, op, tickers, quotes, next_update, todo, ret, err>>
    /\ UNCHANGED <<ghostVars, schedVars>>
    /\ UNCHANGED <<torn, audit, has_nu, parseVars>>

\* Line 346: the loop is over, return res.
gtd_return ==
    /\ op[Main] = "get"
    /\ pc[Main] \in {"returned", "gtd_loop"}
    /\ Keys(ret[Main]) = DOMAIN shown
    /\ pc' = [pc EXCEPT ![Main] = "gtd_done"]
    /\ UNCHANGED <<cacheVars, op, tickers, quotes, next_update, todo, ret, err>>
    /\ UNCHANGED <<ghostVars, schedVars>>
    /\ UNCHANGED <<torn, audit, has_nu, displayVars, parseVars>>

get_ticker_data ==
    \/ gtd_format
    \/ gtd_return

\* ------------------------------------------------------------- environment
\* The wall clock advances.
Tick ==
    /\ now < MaxTime
    /\ now' = now + 1
    /\ last' = NoLast
    /\ UNCHANGED <<file, portfolio, refresh_interval, localVars>>
    /\ UNCHANGED <<seen, seenAt, nfetch, wrote, reported, file0>>
    /\ UNCHANGED schedVars
    /\ UNCHANGED <<torn, audit, has_nu>>
    /\ UNCHANGED <<displayVars, parseVars>>

\* The user edits g:ticker_portfolio between calls.
ChangePortfolio ==
    /\ pc[Main] = "idle"
    /\ \E S \in SUBSET Syms : S # portfolio /\ portfolio' = S
    /\ UNCHANGED <<file, now, refresh_interval, localVars, ghostVars>>
    /\ UNCHANGED schedVars
    /\ UNCHANGED <<torn, audit, has_nu>>
    /\ UNCHANGED <<displayVars, parseVars>>

\* ------------------------------------------------- the cache, single-threaded
NextCache ==
    \/ gcq_call
    \/ refresh_quote_data_now
    \/ get_cached_quotes(Main)
    \/ update_cache(Main, DPs)
    \/ get_ticker_data
    \/ Return
    \/ Tick
    \/ ChangePortfolio

SpecCache == Init /\ [][NextCache]_vars

\* ------------------------------------------------------------ TickerThread
\* threading.Thread.is_alive(): started and run() not yet left.
Alive(t) == pc[t] \notin {"t_none", "t_done", "t_crashed"}

\* The TickerThread objects constructed so far take the first numbers.
Unused == {t \in ThreadIds : pc[t] = "t_none"}

NextThread == CHOOSE t \in Unused : \A u \in Unused : t <= u

\* get_next_update_time, line 410-411: a non-empty dict without next_update.
NextUpdateRaises(f) == f.kind = "json" /\ ~f.hasNU /\ f.recs # NoQuotes

\* get_next_update_time: the file's next_update, or datetime.now() when the
\* file is absent, undecodable or an empty object.
get_next_update_time(f, t) ==
    IF f.kind = "json" /\ f.hasNU THEN StrpTime(f.nu) ELSE t

\* Line 436: float(sleep_for.seconds), the whole seconds of the timedelta.
WaitTimeout(sleep_for) == (sleep_for \div TicksPerSec) * TicksPerSec

\* Line 423: run() begins.
t_start(t) ==
    /\ pc[t] = "t_start"
    /\ running' = [running EXCEPT ![t] = TRUE]
    /\ pc' = [pc EXCEPT ![t] = "t_loop"]
    /\ UNCHANGED <<cacheVars, op, tickers, quotes, next_update, todo, ret, err>>
    /\ UNCHANGED <<ghostVars, UPDATER, time_to_stop, self_next_update, wake_at, notified, stopped>>
    /\ UNCHANGED <<torn, audit, has_nu>>
    /\ UNCHANGED <<displayVars, parseVars>>

\* Lines 425-436: one turn of the loop, up to the refresh or the wait.
t_loop(t) ==
    /\ pc[t] = "t_loop"
    /\ IF time_to_stop[t]
       THEN /\ pc' = [pc EXCEPT ![t] = "t_exit"]
            /\ UNCHANGED <<wake_at, notified>>
       ELSE IF now >= self_next_update[t]
       THEN /\ pc' = [pc EXCEPT ![t] = "t_refresh"]
            /\ UNCHANGED <<wake_at, notified>>
       ELSE /\ pc' = [pc EXCEPT ![t] = "t_wait"]
            /\ wake_at' = [wake_at EXCEPT ![t] = now + WaitTimeout(self_next_update[t] - now)]
            /\ notified' = [notified EXCEPT ![t] = FALSE]
    /\ UNCHANGED <<cacheVars, op, tickers, quotes, next_update, todo, ret, err>>
    /\ UNCHANGED <<ghostVars, UPDATER, running, time_to_stop, self_next_update, stopped>>
    /\ UNCHANGED <<torn, audit, has_nu>>
    /\ UNCHANGED <<displayVars, parseVars>>

\* Line 436: cond_var.wait returns, notified or timed out.
t_wake(t) ==
    /\ pc[t] = "t_wait"
    /\ notified[t] \/ now >= wake_at[t]
    /\ pc' = [pc EXCEPT ![t] = "t_loop"]
    /\ notified' = [notified EXCEPT ![t] = FALSE]
    /\ wake_at' = [wake_at EXCEPT ![t] = 0]
    /\ UNCHANGED <<cacheVars, op, tickers, quotes, next_update, todo, ret, err>>
    /\ UNCHANGED <<ghostVars, UPDATER, running, time_to_stop, self_next_update, stopped>>
    /\ UNCHANGED <<torn, audit, has_nu>>
    /\ UNCHANGED <<displayVars, parseVars>>

\* Line 430: vim.eval('ticker#RefreshQuoteDataNow()'), which has Vim call
\* refresh_quote_data_now (line 128) on g:ticker_portfolio; update_cache then
\* runs in this thread, and what it raises leaves run() uncaught.
t_refresh(t) ==
    /\ pc[t] = "t_refresh"
    /\ pc' = [pc EXCEPT ![t] = "uc_begin"]
    /\ op' = [op EXCEPT ![t] = "refresh"]
    /\ tickers' = [tickers EXCEPT ![t] = portfolio]
    /\ nfetch' = [nfetch EXCEPT ![t] = 0]
    /\ wrote' = [wrote EXCEPT ![t] = FALSE]
    /\ UNCHANGED <<cacheVars, quotes, next_update, todo, ret, err>>
    /\ UNCHANGED <<seen, seenAt, reported, file0, last, schedVars>>
    /\ UNCHANGED <<torn, audit, has_nu>>
    /\ UNCHANGED <<displayVars, parseVars>>

\* Lines 431-432, 400-412: self.next_update = get_next_update_time(...); the
\* locals of the refresh that has returned are gone.
t_reread(t) ==
    /\ pc[t] = "t_reread"
    /\ reported' = [reported EXCEPT ![t] = file.kind \in {"corrupt", "trunc"}]
    /\ IF NextUpdateRaises(file)
       THEN /\ err' = [err EXCEPT ![t] = "KeyError"]
            /\ pc' = [pc EXCEPT ![t] = "t_raising"]
            /\ UNCHANGED self_next_update
       ELSE /\ self_next_update' = [self_next_update EXCEPT ![t] = get_next_update_time(file, now)]
            /\ pc' = [pc EXCEPT ![t] = "t_loop"]
            /\ UNCHANGED err
    /\ op' = [op EXCEPT ![t] = "none"]
    /\ tickers' = [tickers EXCEPT ![t] = {}]
    /\ quotes' = [quotes EXCEPT ![t] = NoQuotes]
    /\ next_update' = [next_update EXCEPT ![t] = 0]
    /\ nfetch' = [nfetch EXCEPT ![t] = 0]
    /\ wrote' = [wrote EXCEPT ![t] = FALSE]
    /\ UNCHANGED <<cacheVars, todo, ret>>
    /\ UNCHANGED <<seen, seenAt, file0, last>>
    /\ UNCHANGED <<UPDATER, running, time_to_stop, wake_at, notified, stopped>>
    /\ torn' = (torn \/ file.kind = "trunc")
    /\ UNCHANGED <<audit, has_nu>>
    /\ UNCHANGED <<displayVars, parseVars>>

\* Line 438: self.running = False.
t_exit(t) ==
    /\ pc[t] = "t_exit"
    /\ running' = [running EXCEPT ![t] = FALSE]
    /\ pc' = [pc EXCEPT ![t] = "t_ending"]
    /\ UNCHANGED <<cacheVars, op, tickers, quotes, next_update, todo, ret, err>>
    /\ UNCHANGED <<ghostVars, UPDATER, time_to_stop, self_next_update, wake_at, notified, stopped>>
    /\ UNCHANGED <<torn, audit, has_nu>>
    /\ UNCHANGED <<displayVars, parseVars>>

\* The thread has ended (to: "t_done" when run() returned, "t_crashed" when an
\* exception left it): its frame's locals are gone, the object's flags stay.
ThreadEnds(t, to) ==
    /\ pc' = [pc EXCEPT ![t] = to]
    /\ op' = [op EXCEPT ![t] = "none"]
    /\ tickers' = [tickers EXCEPT ![t] = {}]
    /\ quotes' = [quotes EXCEPT ![t] = NoQuotes]
    /\ next_update' = [next_update EXCEPT ![t] = 0]
    /\ todo' = [todo EXCEPT ![t] = {}]
    /\ nfetch' = [nfetch EXCEPT ![t] = 0]
    /\ wrote' = [wrote EXCEPT ![t] = FALSE]
    /\ reported' = [reported EXCEPT ![t] = FALSE]
    /\ self_next_update' = [self_next_update EXCEPT ![t] = 0]
    /\ wake_at' = [wake_at EXCEPT ![t] = 0]
    /\ notified' = [notified EXCEPT ![t] = FALSE]
    /\ UNCHANGED <<cacheVars, ret, err, seen, seenAt, file0, last>>
    /\ has_nu' = [has_nu EXCEPT ![t] = FALSE]
    /\ UNCHANGED <<UPDATER, running, time_to_stop, stopped, torn, audit>>
    /\ UNCHANGED <<displayVars, parseVars>>

\* run() has returned: the thread ends.
t_end(t) ==
    /\ pc[t] = "t_ending"
    /\ ThreadEnds(t, "t_done")

\* Lines 430-432: nothing in run() catches what the refresh or the reread
\* raised: the thread dies, self.running still True.
t_die(t) ==
    /\ pc[t] = "t_raising"
    /\ ThreadEnds(t, "t_crashed")

run(t) ==
    \/ t_start(t)
    \/ t_loop(t)
    \/ t_wake(t)
    \/ t_refresh(t)
    \/ update_cache(t, SchedDPs)
    \/ t_reread(t)
    \/ t_exit(t)
    \/ t_end(t)
    \/ t_die(t)

\* --------------------------------------------------- start_display_refresh
\* Mutant: the updater is created whether or not one exists.
AlwaysCreate == TRUE

\* Line 488: if UPDATER is None.
NoUpdater == UPDATER = None

\* Entry, called by the main thread.
sdr_call ==
    /\ pc[Main] = "idle"
    /\ UPDATER # None \/ Unused # {}
    /\ pc' = [pc EXCEPT ![Main] = "sdr_check"]
    /\ op' = [op EXCEPT ![Main] = "start"]
    /\ file0' = (IF audit THEN file ELSE file0)
    /\ UNCHANGED <<cacheVars, tickers, quotes, next_update, todo, ret, err>>
    /\ UNCHANGED <<seen, seenAt, nfetch, wrote, reported, last, schedVars>>
    /\ UNCHANGED <<torn, audit, has_nu>>
    /\ UNCHANGED <<displayVars, parseVars>>

\* Line 488 false: an updater exists and nothing is done.
sdr_noop ==
    /\ pc[Main] = "sdr_check"
    /\ ~NoUpdater
    /\ pc' = [pc EXCEPT ![Main] = "returned"]
    /\ UNCHANGED <<cacheVars, op, tickers, quotes, next_update, todo, ret, err>>
    /\ UNCHANGED <<ghostVars, schedVars>>
    /\ UNCHANGED <<torn, audit, has_nu>>
    /\ UNCHANGED <<displayVars, parseVars>>

\* Lines 489, 461-462, 376-381: TickerThread.__init__ reads the deadline from
\* the cache file, the thread is started and UPDATER is set.
sdr_create ==
    /\ pc[Main] = "sdr_check"
    /\ NoUpdater
    /\ Unused # {}
    /\ ~NextUpdateRaises(file)
    /\ LET t == NextThread IN
        /\ running' = [running EXCEPT ![t] = FALSE]
        /\ time_to_stop' = [time_to_stop EXCEPT ![t] = FALSE]
        /\ self_next_update' = [self_next_update EXCEPT ![t] = get_next_update_time(file, now)]
        /\ pc' = [pc EXCEPT ![Main] = "sdr_wait", ![t] = "t_start"]
        /\ UPDATER' = t
    /\ reported' = [reported EXCEPT ![Main] = file.kind \in {"corrupt", "trunc"}]
    /\ UNCHANGED <<cacheVars, op, tickers, quotes, next_update, todo, ret, err>>
    /\ UNCHANGED <<seen, seenAt, nfetch, wrote, file0, last>>
    /\ UNCHANGED <<wake_at, notified, stopped>>
    /\ torn' = (torn \/ file.kind = "trunc")
    /\ UNCHANGED <<audit, has_nu>>
    /\ UNCHANGED <<displayVars, parseVars>>

\* Lines 380, 411: TickerThread.__init__ raises KeyError; UPDATER stays None.
sdr_create_raises ==
    /\ pc[Main] = "sdr_check"
    /\ NoUpdater
    /\ NextUpdateRaises(file)
    /\ err' = [err EXCEPT ![Main] = "KeyError"]
    /\ pc' = [pc EXCEPT ![Main] = "raised"]
    /\ UNCHANGED <<cacheVars, op, tickers, quotes, next_update, todo, ret>>
    /\ UNCHANGED <<seen, seenAt, nfetch, wrote, reported, file0, last, schedVars>>
    /\ UNCHANGED <<torn, audit, has_nu>>
    /\ UNCHANGED <<displayVars, parseVars>>

\* Lines 490-491: poll until the thread has set running.
sdr_wait ==
    /\ pc[Main] = "sdr_wait"
    /\ running[UPDATER]
    /\ pc' = [pc EXCEPT ![Main] = "returned"]
    /\ UNCHANGED <<cacheVars, op, tickers, quotes, next_update, todo, ret, err>>
    /\ UNCHANGED <<ghostVars, schedVars>>
    /\ UNCHANGED <<torn, audit, has_nu>>
    /\ UNCHANGED <<displayVars, parseVars>>

start_display_refresh ==
    \/ sdr_call
    \/ sdr_noop
    \/ sdr_create
    \/ sdr_create_raises
    \/ sdr_wait

\* ---------------------------------------------------- stop_display_refresh
\* Mutant: join() does not wait.
JoinSkipped(t) == TRUE

\* Line 468: self.thread.join() returns once the thread has ended.
Joined(t) == ~Alive(t)

\* Entry, called by the main thread.
sdf_call ==
    /\ pc[Main] = "idle"
    /\ pc' = [pc EXCEPT ![Main] = "sdf_check"]
    /\ op' = [op EXCEPT ![Main] = "stop"]
    /\ file0' = (IF audit THEN file ELSE file0)
    /\ UNCHANGED <<cacheVars, tickers, quotes, next_update, todo, ret, err>>
    /\ UNCHANGED <<seen, seenAt, nfetch, wrote, reported, last, schedVars>>
    /\ UNCHANGED <<torn, audit, has_nu>>
    /\ UNCHANGED <<displayVars, parseVars>>

\* Line 500 false: no updater exists and nothing is done.
sdf_noop ==
    /\ pc[Main] = "sdf_check"
    /\ UPDATER = None
    /\ pc' = [pc EXCEPT ![Main] = "returned"]
    /\ UNCHANGED <<cacheVars, op, tickers, quotes, next_update, todo, ret, err>>
    /\ UNCHANGED <<ghostVars, schedVars>>
    /\ UNCHANGED <<torn, audit, has_nu>>
    /\ UNCHANGED <<displayVars, parseVars>>

\* Lines 500-501, 467, 448: self.time_to_stop = True.
stop_set ==
    /\ pc[Main] = "sdf_check"
    /\ UPDATER # None
    /\ time_to_stop' = [time_to_stop EXCEPT ![UPDATER] = TRUE]
    /\ pc' = [pc EXCEPT ![Main] = "stop_poll"]
    /\ UNCHANGED <<cacheVars, op, tickers, quotes, next_update, todo, ret, err>>
    /\ UNCHANGED <<ghostVars, UPDATER, running, self_next_update, wake_at, notified, stopped>>
    /\ UNCHANGED <<torn, audit, has_nu>>
    /\ UNCHANGED <<displayVars, parseVars>>

\* Lines 449-452: while self.running: notify, which wakes the thread if it
\* waits and is lost if it does not; sleep.
stop_notify ==
    /\ pc[Main] = "stop_poll"
    /\ running[UPDATER]
    /\ notified' = [notified EXCEPT ![UPDATER] = (pc[UPDATER] = "t_wait")]
    /\ UNCHANGED <<cacheVars, localVars, ghostVars>>
    /\ UNCHANGED <<UPDATER, running, time_to_stop, self_next_update, wake_at, stopped>>
    /\ UNCHANGED <<torn, audit, has_nu>>
    /\ UNCHANGED <<displayVars, parseVars>>

\* Line 449 false: the loop of TickerThread.stop ends.
stop_polled ==
    /\ pc[Main] = "stop_poll"
    /\ ~running[UPDATER]
    /\ pc' = [pc EXCEPT ![Main] = "stop_join"]
    /\ UNCHANGED <<cacheVars, op, tickers, quotes, next_update, todo, ret, err>>
    /\ UNCHANGED <<ghostVars, schedVars>>
    /\ UNCHANGED <<torn, audit, has_nu>>
    /\ UNCHANGED <<displayVars, parseVars>>

\* Lines 468, 502-503: join, then del UPDATER; UPDATER = None.
stop_join ==
    /\ pc[Main] = "stop_join"
    /\ Joined(UPDATER)
    /\ stopped' = stopped \cup {UPDATER}
    /\ UPDATER' = None
    /\ pc' = [pc EXCEPT ![Main] = "returned"]
    /\ UNCHANGED <<cacheVars, op, tickers, quotes, next_update, todo, ret, err>>
    /\ UNCHANGED <<ghostVars, running, time_to_stop, self_next_update, wake_at, notified>>
    /\ UNCHANGED <<torn, audit, has_nu>>
    /\ UNCHANGED <<displayVars, parseVars>>

stop_display_refresh ==
    \/ sdf_call
    \/ sdf_noop
    \/ stop_set
    \/ stop_notify
    \/ stop_polled
    \/ stop_join

\* ------------------------------------------------ the plugin with its updater
SchedPortfolios == {{"A"}}

SchedFiles ==
    {AbsentFile, CorruptFile,
     JsonFile(FALSE, 0, [s \in {"A"} |-> Quote(1, "A")]),
     JsonFile(TRUE, 1, [s \in {"A"} |-> Quote(1, "A")])}

InitSched ==
    /\ file \in SchedFiles
    /\ file0 = AbsentFile
    /\ now = 0
    /\ portfolio \in SUBSET Syms
    /\ refresh_interval \in 0..MaxInterval
    /\ audit = FALSE
    /\ InitLocals
    /\ NoParse

Next ==
    \/ gcq_call
    \/ get_cached_quotes(Main)
    \/ update_cache(Main, SchedDPs)
    \/ start_display_refresh
    \/ stop_display_refresh
    \/ Return
    \/ Tick
    \/ \E t \in ThreadIds : run(t)

Spec == InitSched /\ [][Next]_vars

\* ------------------------------------------------- FmtStringParser.parse
\* Lines 302-310: a turn of the loop that finds a match: the text before it
\* is copied, the specifier is rendered and pos moves behind the match.
p_match ==
    /\ ppc = "p_loop"
    /\ pos <= Len(fmt)
    /\ search(fmt, pos) # NoMatch
    /\ LET m == search(fmt, pos) IN
        /\ mat' = m
        /\ after_prec' = precision_step(StrOfKey(quote_data, m.spec), m)
        /\ piece' = process_specifier(quote_data, m)
        /\ parse_res' = parse_res \o SubSeq(fmt, pos, m.start - 1)
                            \o process_specifier(quote_data, m)
        /\ pos' = m.end
    /\ UNCHANGED <<fmt, quote_data, ppc>>
    /\ UNCHANGED <<cacheVars, localVars, ghostVars, schedVars>>
    /\ UNCHANGED <<torn, audit, has_nu, displayVars>>

\* Lines 302-303, 311-314: a turn that finds none: the rest is copied.
p_tail ==
    /\ ppc = "p_loop"
    /\ pos <= Len(fmt)
    /\ search(fmt, pos) = NoMatch
    /\ parse_res' = parse_res \o SubSeq(fmt, pos, Len(fmt))
    /\ pos' = Len(fmt) + 1
    /\ UNCHANGED <<fmt, quote_data, ppc, mat, after_prec, piece>>
    /\ UNCHANGED <<cacheVars, localVars, ghostVars, schedVars>>
    /\ UNCHANGED <<torn, audit, has_nu, displayVars>>

\* Lines 302, 316: pos has reached fmtlen, return res.
p_return ==
    /\ ppc = "p_loop"
    /\ pos > Len(fmt)
    /\ ppc' = "p_done"
    /\ UNCHANGED <<fmt, quote_data, pos, parse_res, mat, after_prec, piece>>
    /\ UNCHANGED <<cacheVars, localVars, ghostVars, schedVars>>
    /\ UNCHANGED <<torn, audit, has_nu, displayVars>>

\* The characters format strings are made of: the pattern's own, a letter
\* that is no specifier, and two digits.
FmtChars == {"%", "-", ".", "0", "3", "p", "t", "x"}

\* Format strings of the module's self-test, with %p for the field.
SelfTestFmts ==
    {<<"%", "8", ".", "3", "p">>,
     <<"%", "-", "8", ".", "3", "p">>,
     <<"%", "-", "3", ".", "0", "p">>,
     <<"x", " ", "$", "%", "p", " ", "(", "$", "%", "5", "p", ")">>,
     <<"%", "4", "p", "%", "%">>,
     <<"%", "-", "1", "0", "t", "%", ".", "1", "p", "%", "3", "%">>}

FmtStrings == UNION {[1..n -> FmtChars] : n \in 0..MaxFmtLen} \cup SelfTestFmts

\* The quotes parse is given: 47.08 percent for A, -2.5 percent for B.A.
FmtQuotes == {Quote(4708, "A"), Quote(-250, "B.A")}

\* parse(quote_data, fmt) has been called and stands before its loop.
InitFmt ==
    /\ fmt \in FmtStrings
    /\ quote_data \in FmtQuotes
    /\ pos = 1
    /\ parse_res = <<>>
    /\ ppc = "p_loop"
    /\ mat = NoMatch
    /\ after_prec = <<>>
    /\ piece = <<>>
    /\ file = AbsentFile
    /\ file0 = AbsentFile
    /\ now = 0
    /\ portfolio = {}
    /\ refresh_interval = 0
    /\ audit = FALSE
    /\ InitLocals

NextFmt ==
    \/ p_match
    \/ p_tail
    \/ p_return

SpecFmt == InitFmt /\ [][NextFmt]_vars

\* ================================================================ claims
\* The main thread's get_cached_quotes call has ended, by return or by raise.
GetOver == op[Main] = "get" /\ pc[Main] \in {"returned", "raised"}

\* What the call read is a snapshot: a JSON object holding next_update.
SawSnapshot == seen[Main].kind = "json" /\ seen[Main].hasNU

\* The snapshot read stores exactly the tracked symbols and its deadline is
\* strictly later than the time the call compared it with.
SawValid ==
    /\ SawSnapshot
    /\ Keys(seen[Main].recs) = tickers[Main]
    /\ StrpTime(seen[Main].nu) > seenAt[Main]

\* The file holds a complete snapshot whose records are q.
HoldsSnapshot(q) == file.kind = "json" /\ file.hasNU /\ file.recs = q

\* C1: a get_cached_quotes call that reads a snapshot storing exactly the
\* tracked symbols, with a deadline strictly later than the current time,
\* returns the records read, each stamped with its key, and calls
\* get_rest_quote not once.
C1_FreshSnapshotReturned ==
    (GetOver /\ SawValid) =>
        /\ pc[Main] = "returned"
        /\ ret[Main] = [s \in Keys(seen[Main].recs) |->
                          Quote(seen[Main].recs[s].dp, s)]
        /\ nfetch[Main] = 0

\* C1 witness: a cache hit on a snapshot whose record carried a foreign ticker.
C1_Witness ==
    /\ GetOver /\ SawValid
    /\ \E s \in Keys(seen[Main].recs) : seen[Main].recs[s].ticker # s

\* C2: get_cached_quotes returns without refreshing only if the snapshot read
\* stores exactly the tracked symbols and now < next_update; on a snapshot
\* whose symbol set differs, or whose deadline is reached (now >= next_update),
\* update_cache runs: every tracked symbol is fetched and, the fetches
\* succeeding, a snapshot of exactly the tracked symbols is on disk and
\* returned (a fetch that raises ends the call with that error).
C2_HitOnlyIfValid ==
    GetOver =>
        /\ (pc[Main] = "returned" /\ ~wrote[Main]) => SawValid
        /\ (SawSnapshot /\ ~SawValid) =>
              IF pc[Main] = "returned"
              THEN /\ wrote[Main]
                   /\ nfetch[Main] = Cardinality(tickers[Main])
                   /\ Keys(ret[Main]) = tickers[Main]
                   /\ HoldsSnapshot(ret[Main])
              ELSE err[Main] = "FetchError" /\ nfetch[Main] >= 1

\* C2 witness: a refresh forced at the very deadline of a snapshot that
\* stores the tracked symbols.
C2_Witness ==
    /\ GetOver /\ SawSnapshot /\ pc[Main] = "returned" /\ wrote[Main]
    /\ Keys(seen[Main].recs) = tickers[Main]
    /\ tickers[Main] # {}
    /\ StrpTime(seen[Main].nu) = seenAt[Main]

\* The main thread's call ended with get_rest_quote's error.
FetchFailed == pc[Main] = "raised" /\ err[Main] = "FetchError"

\* C3: when get_rest_quote raises for one of the symbols, the call ends with
\* that error, has not opened the cache file for writing, and the file is what
\* it was when the call began, however many quotes were fetched before.
C3_FailedFetchWritesNothing ==
    err[Main] = "FetchError" =>
        /\ pc[Main] = "raised"
        /\ ~wrote[Main]
        /\ file = file0

\* C3 witness: the second fetch failed after the first succeeded, over an
\* existing snapshot.
C3_Witness ==
    /\ FetchFailed
    /\ nfetch[Main] = 2
    /\ file0.kind = "json"

\* C4 as stated: a get_cached_quotes call that immediately follows a successful
\* refresh of the same symbols, the interval being positive, returns the
\* records that refresh wrote, fetches nothing and does not rewrite the file.
C4_RoundTrip ==
    (GetOver /\ last.valid /\ last.tickers = tickers[Main] /\ refresh_interval > 0) =>
        /\ pc[Main] = "returned"
        /\ ret[Main] = last.recs
        /\ nfetch[Main] = 0
        /\ ~wrote[Main]

\* C5 as stated: a call that reads a JSON object without next_update does not
\* fail on it: it refreshes and returns the refreshed quotes.
C5_MissingKeyRefreshes ==
    (GetOver /\ seen[Main].kind = "json" /\ ~seen[Main].hasNU /\ ~FetchFailed) =>
        /\ pc[Main] = "returned"
        /\ wrote[Main]
        /\ Keys(ret[Main]) = tickers[Main]

\* C6: a call that finds the file undecodable reports the decode error and
\* from there does what a call that finds no file does: it raises nothing but
\* a fetch error, fetches every tracked symbol, leaves a complete snapshot of
\* the tracked symbols on disk and returns its records.
C6_UndecodableLikeAbsent ==
    (GetOver /\ seen[Main].kind \in {"absent", "corrupt", "trunc"}) =>
        /\ reported[Main] <=> (seen[Main].kind # "absent")
        /\ pc[Main] = "raised" => err[Main] = "FetchError"
        /\ pc[Main] = "returned" =>
              /\ wrote[Main]
              /\ nfetch[Main] = Cardinality(tickers[Main])
              /\ Keys(ret[Main]) = tickers[Main]
              /\ \A s \in tickers[Main] : ret[Main][s].ticker = s
              /\ HoldsSnapshot(ret[Main])

\* C6 witness: a call that read an undecodable file returned fresh quotes.
C6_Witness ==
    /\ GetOver /\ seen[Main].kind = "corrupt" /\ pc[Main] = "returned"
    /\ tickers[Main] # {}
    /\ file0 = CorruptFile

\* C7 as stated: no json.load, in get_cached_quotes or in
\* get_next_update_time, ever reads the file as update_cache's open(..., 'w')
\* left it, before json.dump has written the new snapshot.
C7_AtomicWrite == ~torn

\* C8 as stated: a scheduler thread whose refresh met a fetch failure is
\* still running its loop.
C8_FailureKeepsScheduler ==
    \A t \in ThreadIds : err[t] = "FetchError" => Alive(t)

AliveThreads == {t \in ThreadIds : Alive(t)}

ThreadPcs == [t \in ThreadIds |-> pc[t]]

\* C9: at most one TickerThread is alive at any time; start_display_refresh
\* finding an updater, and stop_display_refresh finding none, return leaving
\* the updater, every thread and the cache file as they were.
C9_SingleScheduler ==
    /\ [](Cardinality(AliveThreads) <= 1)
    /\ [][(pc[Main] = "sdr_check" /\ UPDATER # None /\ pc'[Main] # "sdr_check")
            => UNCHANGED <<schedVars, ThreadPcs, file>>]_vars
    /\ [][(pc[Main] = "sdf_check" /\ UPDATER = None /\ pc'[Main] # "sdf_check")
            => UNCHANGED <<schedVars, ThreadPcs, file>>]_vars

\* C9 witness: after one updater was started and stopped, start is called
\* again while the second one's thread is alive.
C9_Witness ==
    /\ pc[Main] = "sdr_check"
    /\ UPDATER # None
    /\ UPDATER \in AliveThreads
    /\ stopped # {}

\* C10: once stop has returned for a thread, its running flag is False, it is
\* not alive, and it takes no further step (so triggers no refresh).
C10_StopJoins ==
    /\ [](\A t \in stopped : ~running[t] /\ ~Alive(t))
    /\ [][\A t \in stopped : pc'[t] = pc[t] /\ wrote'[t] = wrote[t]]_vars

\* C10 witness: stop_display_refresh has returned for a thread that had been
\* started.
C10_Witness ==
    /\ op[Main] = "stop" /\ pc[Main] = "returned"
    /\ UPDATER = None
    /\ \E t \in stopped : pc[t] = "t_done" /\ time_to_stop[t]

\* C11 as stated: a stop() that is polling self.running is polling a thread
\* that can still answer, that is, one whose run() has not been left; only
\* such a thread ever sets running False and lets stop() return.
C11_StopCompletes ==
    (pc[Main] = "stop_poll" /\ running[UPDATER]) => Alive(UPDATER)

\* C12: every mapping get_cached_quotes returns, from the cache or from a
\* refresh, has exactly the tracked symbols as its keys, does not hold the
\* next_update key, and each of its records carries the key it is stored
\* under as its ticker, whatever ticker the record on disk carried.
C12_ReturnedMapping ==
    (GetOver /\ pc[Main] = "returned") =>
        /\ Keys(ret[Main]) = tickers[Main]
        /\ ~has_nu[Main]
        /\ \A s \in Keys(ret[Main]) : ret[Main][s].ticker = s

\* C12 witness: a cache hit on two symbols, returned without a write, where
\* both records on disk carried the other one's ticker.
C12_Witness ==
    /\ GetOver /\ pc[Main] = "returned" /\ ~wrote[Main]
    /\ tickers[Main] = Syms
    /\ \A s \in Syms : seen[Main].recs[s].ticker # s

\* get_ticker_data has returned res.
DisplayOver == op[Main] = "get" /\ pc[Main] = "gtd_done"

\* C13: each turn of get_ticker_data's loop gives the display string of the
\* record it formats the value 0 when the record's percent change is below
\* zero and the value 1 when it is zero or above.
C13_SignClassifies ==
    [][\A s \in (DOMAIN shown') \ (DOMAIN shown) :
          /\ ret[Main][s].dp < 0 => res'[shown'[s]] = 0
          /\ ret[Main][s].dp >= 0 => res'[shown'[s]] = 1]_vars

\* C13 witness: a flat record and a falling record have been classified, 1
\* and 0.
C13_Witness ==
    /\ DisplayOver
    /\ \E s \in DOMAIN shown : ret[Main][s].dp = 0 /\ res[shown[s]] = 1
    /\ \E s \in DOMAIN shown : ret[Main][s].dp < 0 /\ res[shown[s]] = 0

\* The symbols whose display string is d.
ShownAs(d) == {s \in DOMAIN shown : shown[s] = d}

\* C14 as stated: in the mapping returned, an entry of 0 stands for a record
\* whose percent change is zero or below, an entry of 1 for a record whose
\* percent change is above zero, and so every flat record shows 0.
C14_ZeroMarksNonPositive ==
    DisplayOver =>
        \A d \in DOMAIN res : \E s \in ShownAs(d) :
            res[d] = (IF ret[Main][s].dp <= 0 THEN 0 ELSE 1)

\* C14, amended: in the mapping returned, an entry of 0 stands for a record
\* whose percent change is below zero, an entry of 1 for a record whose
\* percent change is zero or above.
C14_ZeroMarksNegative ==
    DisplayOver =>
        \A d \in DOMAIN res :
            /\ res[d] \in {0, 1}
            /\ \E s \in ShownAs(d) : res[d] = 0 <=> ret[Main][s].dp < 0

\* C14 witness: the mapping returned shows 1 for a display string that only
\* a flat record has, and 0 for another.
C14_Witness ==
    /\ DisplayOver
    /\ \E d \in DOMAIN res :
        /\ res[d] = 1
        /\ ShownAs(d) # {}
        /\ \A s \in ShownAs(d) : ret[Main][s].dp = 0
    /\ \E d \in DOMAIN res : res[d] = 0

\* C15: when the specifier processed gave a width w (a run of digits, "0"
\* included), what process_specifier returns has exactly w characters: the
\* first w of the precision-adjusted value if that is longer, else the value
\* with spaces before it when '-' was given and after it when not; when no
\* width was given it returns the precision-adjusted value as it is.
C15_WidthStep ==
    mat # NoMatch =>
        LET w == IntOf(mat.width)
            n == Len(after_prec)
        IN IF mat.width # <<>>
           THEN /\ Len(piece) = w
                /\ n > w => piece = SubSeq(after_prec, 1, w)
                /\ (n <= w /\ mat.minus) =>
                      /\ SubSeq(piece, w - n + 1, w) = after_prec
                      /\ \A i \in 1..(w - n) : piece[i] = " "
                /\ (n <= w /\ ~mat.minus) =>
                      /\ SubSeq(piece, 1, n) = after_prec
                      /\ \A i \in (n + 1)..w : piece[i] = " "
           ELSE piece = after_prec

\* C15 witness: a specifier with '-', a precision and a width larger than the
\* precision-adjusted value has been processed.
C15_Witness ==
    /\ mat # NoMatch
    /\ mat.minus
    /\ mat.prec # <<>>
    /\ Len(after_prec) > 0
    /\ IntOf(mat.width) > Len(after_prec)
    /\ piece[1] = " "

\* C16: when the specifier processed gave a precision p ("0" included) and
\* the value's text holds a '.', the precision-adjusted text is the value's
\* text up to and with its first '.', followed by exactly p characters: those
\* of the value, in order, and '0' where the value has no more; a value
\* without '.', and any value when no precision was given, is left as it is.
C16_PrecisionStep ==
    mat # NoMatch =>
        LET v == StrOfKey(quote_data, mat.spec)
            p == IntOf(mat.prec)
            d == IF \E i \in 1..Len(v) : v[i] = "."
                 THEN CHOOSE i \in 1..Len(v) : v[i] = "." /\ \A k \in 1..(i - 1) : v[k] # "."
                 ELSE 0
        IN IF mat.prec # <<>> /\ d > 0
           THEN /\ Len(after_prec) = d + p
                /\ \A i \in 1..(d + p) :
                      after_prec[i] = IF i <= Len(v) THEN v[i] ELSE "0"
           ELSE after_prec = v

\* C16 witness: precision 0 has cut a value to its integer part and the point.
C16_Witness ==
    /\ mat # NoMatch
    /\ mat.prec = <<"0">>
    /\ mat.spec = "p"
    /\ Len(after_prec) >= 2
    /\ after_prec[Len(after_prec)] = "."

\* The specifier matches parse renders: a match is rendered unless it begins
\* inside a rendered match that begins before it.
RECURSIVE Selected(_, _)
Selected(f, i) ==
    /\ MatchAt(f, i) # NoMatch
    /\ \A k \in 1..(i - 1) :
          (MatchAt(f, k) # NoMatch /\ MatchAt(f, k).end > i) => ~Selected(f, k)

Covered(f, i) == \E k \in 1..(i - 1) : Selected(f, k) /\ MatchAt(f, k).end > i

\* What the claim says parse returns, character by character from index i:
\* a rendered match gives what parse makes of the specifier's text alone, a
\* character inside a rendered match gives nothing, any other character gives
\* itself.
RECURSIVE Rendering(_, _, _)
Rendering(q, f, i) ==
    IF i > Len(f) THEN <<>>
    ELSE (IF Selected(f, i) THEN parse(q, SubSeq(f, i, MatchAt(f, i).end - 1))
          ELSE IF Covered(f, i) THEN <<>>
          ELSE <<f[i]>>)
         \o Rendering(q, f, i + 1)

\* C17: parse ends, every turn of its loop moving pos forward and never
\* beyond the end; what it returns is the text outside the leftmost,
\* non-overlapping specifier matches, copied, with each such match replaced
\* by its rendering, which is what the specifier gives when it stands alone;
\* a format string without a match is returned as it is.
C17_ParseWhole ==
    /\ [](ppc = "p_done" => parse_res = Rendering(quote_data, fmt, 1))
    /\ []((ppc = "p_done" /\ \A i \in 1..Len(fmt) : MatchAt(fmt, i) = NoMatch)
            => parse_res = fmt)
    /\ [](ppc = "p_loop" => pos <= Len(fmt) + 1)
    /\ [][(ppc = "p_loop" /\ pos <= Len(fmt)) => pos' > pos]_vars

\* C17 witness: parse has returned for a format string that begins with a
\* specifier, ends with one, and has the two side by side.
C17_Witness ==
    /\ ppc = "p_done"
    /\ Selected(fmt, 1)
    /\ LET e == MatchAt(fmt, 1).end
       IN /\ e <= Len(fmt)
          /\ Selected(fmt, e)
          /\ MatchAt(fmt, e).end = Len(fmt) + 1
          /\ MatchAt(fmt, e).width # <<>>
          /\ MatchAt(fmt, 1).width = <<>>

\* The file holds a snapshot that decodes and whose deadline is still ahead.
DiskFresh == file.kind = "json" /\ file.hasNU /\ StrpTime(file.nu) > now

\* C18 as stated: a TickerThread does not decide on a refresh (line 429 true,
\* so that line 430 follows) while the file holds a snapshot whose deadline
\* is still ahead, whatever the main thread's calls have written meanwhile.
C18_RefreshOnlyAtDiskDeadline ==
    [][\A t \in ThreadIds :
          (pc[t] = "t_loop" /\ pc'[t] = "t_refresh") => ~DiskFresh]_vars

\* C19 as stated, in what it says of the state after a refresh the scheduler
\* triggered: when the refresh has returned and the thread, no stop being
\* requested, has taken its deadline anew (lines 431-432), that deadline is
\* the next_update of the snapshot on disk and lies ahead of the clock.
C19_DeadlineAheadAfterRefresh ==
    [][\A t \in ThreadIds :
          (pc[t] = "t_reread" /\ pc'[t] = "t_loop" /\ ~time_to_stop[t]) =>
              /\ file.kind = "json" /\ file.hasNU
              /\ self_next_update'[t] = StrpTime(file.nu)
              /\ self_next_update'[t] > now]_vars

\* C20 as stated: a get_cached_quotes call that reads a snapshot storing
\* exactly the tracked symbols (which may be none) with a deadline strictly
\* ahead does not open the cache file for writing, and the file, its
\* next_update included, is what it was when the call began.
C20_ValidSnapshotUntouched ==
    (GetOver /\ SawValid) => (~wrote[Main] /\ file = file0)

\* C21 as stated: the mapping get_ticker_data returns has as many entries as
\* there are tracked symbols, and for each tracked symbol the entry of its
\* display string tells that symbol's classification, also when two symbols
\* are formatted to the same display string.
C21_OneEntryPerSymbol ==
    DisplayOver =>
        /\ Cardinality(DOMAIN res) = Cardinality(tickers[Main])
        /\ \A s \in tickers[Main] :
              /\ s \in DOMAIN shown
              /\ shown[s] \in DOMAIN res
              /\ res[shown[s]] = (IF ret[Main][s].dp < 0 THEN 0 ELSE 1)

====
